---- MODULE Spec2Model ----
(***************************************************************************)
(* Model of the OCR proxy's request pipeline (src/src/lib/ocr.ts) and of   *)
(* the route table that binds it to seven endpoints.                       *)
(*                                                                         *)
(* Representation.                                                         *)
(*  - A string is a sequence of chunks.  Every character the code looks at *)
(*    (white space, ".", "/", ",", "$", "&", quotes, brackets, digits, the *)
(*    "{{target}}" placeholder) is a chunk of its own; any other chunk is  *)
(*    an opaque run of characters none of which the code inspects.         *)
(*  - An optional value (T | undefined) is a set with at most one element: *)
(*    {} is undefined.                                                     *)
(*  - The user-facing messages are Chinese string literals in the source;  *)
(*    they are written here in ASCII.                                      *)
(***************************************************************************)
EXTENDS Integers, Sequences, FiniteSets, TLC

VARIABLES
    pc,          \* position of the request inside handleOcrRequest
    forced,      \* options.forcedTaskType of the route that was hit
    req,         \* the inbound request (content type and body)
    env,         \* the bindings of c.env read so far, name -> value
    payload,     \* ParsedInput returned by parseInput
    finalPrompt, \* result of buildPrompt
    fileInfo,    \* result of prepareFile
    upstream,    \* the request sent to the upstream endpoint
    reply,       \* the upstream's reply
    result,      \* result of invokeSiliconFlow
    response,    \* the HTTP response returned to the caller
    fetches,     \* number of network calls issued for this request
    stages       \* the stages that have run, in order

vars == <<pc, forced, req, env, payload, finalPrompt, fileInfo, upstream,
          reply, result, response, fetches, stages>>

-----------------------------------------------------------------------------
(* Optional values and strings *)

Undefined == {}
Some(v) == {v}
Val(o) == CHOOSE v \in o : TRUE
OrElse(o, d) == IF o = {} THEN d ELSE Val(o)

IsSpace(c) == c \in {" ", "\n", "\t"}

RECURSIVE trimStart(_)
trimStart(s) ==
    IF s # <<>> /\ IsSpace(Head(s)) THEN trimStart(Tail(s)) ELSE s

RECURSIVE trimEnd(_)
trimEnd(s) ==
    IF s # <<>> /\ IsSpace(s[Len(s)])
    THEN trimEnd(SubSeq(s, 1, Len(s) - 1))
    ELSE s

\* String.prototype.trim
trim(s) == trimEnd(trimStart(s))

\* String.prototype.includes, for a needle that is one chunk
includes(s, c) == \E i \in 1..Len(s) : s[i] = c

\* String.prototype.toLowerCase on the chunks that carry upper-case letters
LowerChunk(c) ==
    CASE c = "PNG" -> "png"
      [] c = "PDF" -> "pdf"
      [] c = "JPG" -> "jpg"
      [] c = "Image" -> "image"
      [] OTHER -> c

toLowerCase(s) == [i \in 1..Len(s) |-> LowerChunk(s[i])]

\* Array.prototype.join("\n") over strings
RECURSIVE joinLines(_)
joinLines(ss) ==
    IF ss = <<>> THEN <<>>
    ELSE IF Len(ss) = 1 THEN ss[1]
    ELSE ss[1] \o <<"\n">> \o joinLines(Tail(ss))

\* All sequences over S of length at most n
RECURSIVE SeqsUpTo(_, _)
SeqsUpTo(S, n) ==
    IF n = 0 THEN {<<>>}
    ELSE LET shorter == SeqsUpTo(S, n - 1)
         IN  shorter \cup {Append(s, c) : s \in {t \in shorter : Len(t) = n - 1}, c \in S}

-----------------------------------------------------------------------------
(* Errors *)

\* class OcrError; a thrown value that is not an OcrError has ocr = FALSE
OcrError(status, code, message, details) ==
    [ocr |-> TRUE, status |-> status, code |-> code, message |-> message,
     details |-> details]

\* any other thrown value (SyntaxError of json(), DOMException of atob,
\* TypeError of fetch)
OtherError(what) ==
    [ocr |-> FALSE, status |-> 0, code |-> what, message |-> <<>>,
     details |-> Undefined]

Ok(v) == [ok |-> TRUE, value |-> v]
Throw(e) == [ok |-> FALSE, error |-> e]

-----------------------------------------------------------------------------
(* Task registry *)

TaskTypeSchema ==
    {"document_markdown", "general_ocr", "plaintext_ocr", "chart_parse",
     "image_caption", "text_localization"}

Placeholder == "{{target}}"

TASK_CONFIGS ==
    [t \in TaskTypeSchema |->
        CASE t = "document_markdown" ->
               [id |-> t, requiresTargetText |-> FALSE, allowCustomPrompt |-> FALSE,
                defaultPrompt |-> <<"<image>", "\n", "<|grounding|>Convert the document to markdown.">>]
          [] t = "general_ocr" ->
               [id |-> t, requiresTargetText |-> FALSE, allowCustomPrompt |-> FALSE,
                defaultPrompt |-> <<"<image>", "\n", "<|grounding|>OCR this image.">>]
          [] t = "plaintext_ocr" ->
               [id |-> t, requiresTargetText |-> FALSE, allowCustomPrompt |-> FALSE,
                defaultPrompt |-> <<"<image>", "\n", "Free OCR.">>]
          [] t = "chart_parse" ->
               [id |-> t, requiresTargetText |-> FALSE, allowCustomPrompt |-> FALSE,
                defaultPrompt |-> <<"<image>", "\n", "Parse the figure.">>]
          [] t = "image_caption" ->
               [id |-> t, requiresTargetText |-> FALSE, allowCustomPrompt |-> FALSE,
                defaultPrompt |-> <<"<image>", "\n", "Describe this image in detail.">>]
          [] t = "text_localization" ->
               [id |-> t, requiresTargetText |-> TRUE, allowCustomPrompt |-> TRUE,
                defaultPrompt |-> <<"<image>", "\n", "Locate <|ref|>", Placeholder,
                                    "<|/ref|> in the image.">>]]

\* the routes registered on the app: the generic endpoint passes no forced
\* task type, each alias endpoint passes its own
NoForced == Undefined
Routes == {NoForced} \cup {Some(t) : t \in TaskTypeSchema}

-----------------------------------------------------------------------------
(* Request values *)

\* a form field value or a JSON member value
StringValue(s) == [kind |-> "string", text |-> s, name |-> <<>>, type |-> <<>>, size |-> 0]
FileValue(n, t, z) == [kind |-> "file", text |-> <<>>, name |-> n, type |-> t, size |-> z]
\* a JSON member that is not a string (a number, null, an object)
OtherValue == [kind |-> "other", text |-> <<>>, name |-> <<>>, type |-> <<>>, size |-> 0]

\* first(value): a field is the sequence of the values sent under its name
first(value) == IF value = <<>> THEN Undefined ELSE Some(value[1])

\* normalizeString testing and returning the value without trimming it
normalizeString_NoTrim(value) ==
    IF value # Undefined /\ Val(value).kind = "string" /\ Len(Val(value).text) > 0
    THEN Some(Val(value).text)
    ELSE Undefined

\* normalizeString(value), value optional
normalizeString(value) ==
    IF value # Undefined /\ Val(value).kind = "string" /\ Len(trim(Val(value).text)) > 0
    THEN Some(trim(Val(value).text))
    ELSE Undefined

\* TaskTypeSchema.safeParse on a string: the string must be a member, exactly
safeParseTaskType(s) ==
    IF Len(s) = 1 /\ s[1] \in TaskTypeSchema THEN Ok(s[1])
    ELSE Throw(OtherError("ZodError"))

resolveTaskType(f, candidate) ==
    IF f # Undefined THEN Ok(Val(f))
    ELSE IF candidate = Undefined \/ Val(candidate) = <<>>
    THEN Throw(OcrError(400, "MISSING_TASK_TYPE",
                        <<"Please provide the taskType field in the request.">>, Undefined))
    ELSE LET parsed == safeParseTaskType(Val(candidate))
         IN  IF ~parsed.ok
             THEN Throw(OcrError(400, "INVALID_TASK_TYPE",
                                 <<"taskType is not within the allowed enumeration.">>, Undefined))
             ELSE Ok(parsed.value)

-----------------------------------------------------------------------------
(* Encoder: extension, MIME type, base64 *)

\* the part of s after its last occurrence of chunk c (all of s if none)
RECURSIVE afterLast(_, _)
afterLast(s, c) ==
    IF ~includes(s, c) THEN s
    ELSE LET i == CHOOSE k \in 1..Len(s) : s[k] = c /\ \A j \in (k + 1)..Len(s) : s[j] # c
         IN  SubSeq(s, i + 1, Len(s))

\* getExtension: undefined without a ".", else the lower-cased last segment
\* (which is the empty string for a name ending in ".")
getExtension(filename) ==
    IF ~includes(filename, ".") THEN Undefined
    ELSE Some(toLowerCase(afterLast(filename, ".")))

\* a JavaScript string is truthy when it is not empty
Truthy(o) == o # Undefined /\ Val(o) # <<>>

OctetStream == <<"application", "/", "octet-stream">>

inferMimeType(filename) ==
    LET ext == IF Truthy(filename) THEN getExtension(Val(filename)) ELSE Undefined
    IN  IF ext = Undefined THEN Undefined
        ELSE CASE Val(ext) \in {<<"jpg">>, <<"jpeg">>} -> Some(<<"image", "/", "jpeg">>)
               [] Val(ext) = <<"png">> -> Some(<<"image", "/", "png">>)
               [] Val(ext) = <<"gif">> -> Some(<<"image", "/", "gif">>)
               [] Val(ext) = <<"bmp">> -> Some(<<"image", "/", "bmp">>)
               [] Val(ext) = <<"webp">> -> Some(<<"image", "/", "webp">>)
               [] Val(ext) = <<"pdf">> -> Some(<<"application", "/", "pdf">>)
               [] OTHER -> Undefined

\* characters of the base64 alphabet that occur in the inputs
B64Alphabet == {"i", "V", "B", "O", "R", "w", "0", "K", "G", "g"}

RECURSIVE removeSpaces(_)
removeSpaces(s) ==
    IF s = <<>> THEN <<>>
    ELSE IF IsSpace(Head(s)) THEN removeSpaces(Tail(s))
    ELSE <<Head(s)>> \o removeSpaces(Tail(s))

\* atob (forgiving base64 decode) on a string without white space: the
\* number of bytes decoded, or a thrown InvalidCharacterError.  The decoded
\* bytes are never inspected, so a binary is represented by its length.
atob(s) ==
    LET n    == Len(s)
        pads == IF n > 0 /\ n % 4 = 0
                THEN IF n >= 2 /\ s[n] = "=" /\ s[n - 1] = "=" THEN 2
                     ELSE IF s[n] = "=" THEN 1 ELSE 0
                ELSE 0
        d    == SubSeq(s, 1, n - pads)
    IN  IF Len(d) % 4 = 1 \/ \E i \in 1..Len(d) : d[i] \notin B64Alphabet
        THEN Throw(OtherError("InvalidCharacterError"))
        ELSE Ok((Len(d) * 6) \div 8)

base64ToUint8Array(base64) ==
    atob(removeSpaces(IF includes(base64, ",") THEN afterLast(base64, ",") ELSE base64))

\* fileToBase64: btoa of the bytes, four characters for every three bytes
fileToBase64(file) == 4 * ((file.size + 2) \div 3)

\* new File([bytes], name, {type})
File(n, t, z) == [name |-> n, type |-> t, size |-> z]

-----------------------------------------------------------------------------
(* Input normalizer *)

Upload == <<"upload">>

ParsedInput(file, filename, taskType, customPrompt, targetText) ==
    [file |-> file, filename |-> filename, taskType |-> taskType,
     customPrompt |-> customPrompt, targetText |-> targetText]

parseMultipart(r, f) ==
    IF r.body # "ok" THEN Throw(OtherError("TypeError"))
    ELSE LET file == first(r.image)
         IN  IF file = Undefined \/ Val(file).kind # "file"
             THEN Throw(OcrError(400, "INVALID_FILE",
                                 <<"Please upload a valid image or PDF file.">>, Undefined))
             ELSE LET customPrompt == normalizeString(first(r.prompt))
                      targetText   == normalizeString(first(r.text))
                      taskType     == resolveTaskType(f, normalizeString(first(r.taskType)))
                      fv           == Val(file)
                  IN  IF ~taskType.ok THEN taskType
                      ELSE Ok(ParsedInput(File(fv.name, fv.type, fv.size),
                                          IF fv.name # <<>> THEN fv.name ELSE Upload,
                                          taskType.value, customPrompt, targetText))

\* the issues of JsonRequestSchema.extend({taskType}).safeParse(raw), in the
\* order of the schema's keys
zodIssues(r) ==
    LET notString(v) == v # Undefined /\ Val(v).kind # "string"
        image == first(r.image)
        tt    == first(r.taskType)
    IN  IF r.body # "ok" THEN <<"Expected object">>
        ELSE (IF tt # Undefined /\ (Val(tt).kind # "string" \/ ~safeParseTaskType(Val(tt).text).ok)
              THEN <<"Invalid enum value">> ELSE <<>>)
          \o (IF image = Undefined THEN <<"Required">>
              ELSE IF Val(image).kind # "string" THEN <<"Expected string">>
              ELSE IF Len(Val(image).text) < 1
              THEN <<"String must contain at least 1 character(s)">> ELSE <<>>)
          \o (IF notString(first(r.filename)) THEN <<"Expected string">> ELSE <<>>)
          \o (IF notString(first(r.prompt)) THEN <<"Expected string">> ELSE <<>>)
          \o (IF notString(first(r.text)) THEN <<"Expected string">> ELSE <<>>)

\* formatZodError: the issue messages joined by "; "
RECURSIVE formatZodError(_)
formatZodError(issues) ==
    IF Len(issues) <= 1 THEN issues
    ELSE <<issues[1], "; ">> \o formatZodError(Tail(issues))

TextOf(v) == IF v = Undefined THEN Undefined ELSE Some(Val(v).text)

parseJson(r, f) ==
    IF r.body = "malformed" THEN Throw(OtherError("SyntaxError"))
    ELSE IF zodIssues(r) # <<>>
    THEN Throw(OcrError(400, "INVALID_JSON", formatZodError(zodIssues(r)), Undefined))
    ELSE LET image == TextOf(first(r.image))
         IN  IF ~Truthy(image)
             THEN Throw(OcrError(400, "MISSING_IMAGE",
                                 <<"A JSON request must provide the image field (base64 encoded).">>,
                                 Undefined))
             ELSE LET filename == IF Truthy(TextOf(first(r.filename)))
                                  THEN Val(first(r.filename)).text ELSE Upload
                      bytes    == base64ToUint8Array(Val(image))
                      mimeType == OrElse(inferMimeType(Some(filename)), OctetStream)
                      taskType == resolveTaskType(f, TextOf(first(r.taskType)))
                  IN  IF ~bytes.ok THEN bytes
                      ELSE IF ~taskType.ok THEN taskType
                      ELSE Ok(ParsedInput(File(filename, mimeType, bytes.value), filename,
                                          taskType.value,
                                          normalizeString(first(r.prompt)),
                                          normalizeString(first(r.text))))

parseInput(r, f) ==
    IF includes(r.contentType, "multipart/form-data") THEN parseMultipart(r, f)
    ELSE IF includes(r.contentType, "application/json") THEN parseJson(r, f)
    ELSE Throw(OcrError(415, "UNSUPPORTED_CONTENT_TYPE",
                        <<"Only multipart/form-data or application/json requests are supported.">>,
                        Undefined))

-----------------------------------------------------------------------------
(* Prompt builder *)

\* the position of the first chunk c in s, 0 if there is none
indexOf(s, c) ==
    IF includes(s, c) THEN CHOOSE i \in 1..Len(s) : s[i] = c /\ \A j \in 1..(i - 1) : s[j] # c
    ELSE 0

\* the chunks that stand for the grave accent and the apostrophe
Backtick == "<grave>"
Apostrophe == "<apostrophe>"

\* GetSubstitution of String.prototype.replace for a string pattern (no
\* captures): "$$" is "$", "$&" the match, "$" before a grave accent or an
\* apostrophe the text before or after the match; any other "$" stands
\* for itself
RECURSIVE getSubstitution(_, _, _, _)
getSubstitution(replacement, matched, before, after) ==
    IF replacement = <<>> THEN <<>>
    ELSE IF Head(replacement) = "$" /\ Len(replacement) >= 2
              /\ replacement[2] \in {"$", "&", Backtick, Apostrophe}
    THEN (CASE replacement[2] = "$" -> <<"$">>
            [] replacement[2] = "&" -> matched
            [] replacement[2] = Backtick -> before
            [] replacement[2] = Apostrophe -> after)
         \o getSubstitution(SubSeq(replacement, 3, Len(replacement)), matched, before, after)
    ELSE <<Head(replacement)>> \o getSubstitution(Tail(replacement), matched, before, after)

\* String.prototype.replace(pattern, replacement) with a string pattern:
\* only the first occurrence is replaced
replace(str, pattern, replacement) ==
    LET i == indexOf(str, pattern)
    IN  IF i = 0 THEN str
        ELSE LET before == SubSeq(str, 1, i - 1)
                 after  == SubSeq(str, i + 1, Len(str))
             IN  before \o getSubstitution(replacement, <<pattern>>, before, after) \o after

buildPrompt(config, customPrompt, targetText) ==
    IF config.requiresTargetText /\ ~Truthy(targetText)
    THEN Throw(OcrError(400, "MISSING_TARGET_TEXT",
                        <<"The text localization task needs the text field.">>, Undefined))
    ELSE LET base == IF config.requiresTargetText
                     THEN replace(config.defaultPrompt, Placeholder, OrElse(targetText, <<>>))
                     ELSE config.defaultPrompt
         IN  IF config.allowCustomPrompt /\ Truthy(customPrompt)
             THEN Ok(base \o <<"\n">> \o Val(customPrompt))
             ELSE Ok(base)

-----------------------------------------------------------------------------
(* File validator *)

DEFAULT_MAX_FILE_SIZE == 10485760

DEFAULT_SUPPORTED_FORMATS ==
    << <<"image", "/", "jpeg">>, <<"image", "/", "png">>, <<"image", "/", "gif">>,
       <<"image", "/", "bmp">>, <<"image", "/", "webp">>, <<"application", "/", "pdf">> >>

Digits == <<"0", "1", "2", "3", "4", "5", "6", "7", "8", "9">>
IsDigit(c) == \E d \in 1..10 : Digits[d] = c
DigitValue(c) == (CHOOSE d \in 1..10 : Digits[d] = c) - 1

RECURSIVE digitsValue(_, _)
digitsValue(s, acc) ==
    IF s = <<>> THEN acc ELSE digitsValue(Tail(s), 10 * acc + DigitValue(Head(s)))

\* Number(string) on decimal integer literals: white space is trimmed, the
\* empty string is 0, an optional sign precedes the digits; anything else
\* (and "Infinity", which is not finite) is reported as undefined, which
\* stands for a value that fails Number.isFinite
Number(s) ==
    LET t    == trim(s)
        neg  == t # <<>> /\ Head(t) = "-"
        body == IF t # <<>> /\ Head(t) \in {"-", "+"} THEN Tail(t) ELSE t
    IN  IF t = <<>> THEN Some(0)
        ELSE IF body # <<>> /\ \A i \in 1..Len(body) : IsDigit(body[i])
        THEN Some(IF neg THEN 0 - digitsValue(body, 0) ELSE digitsValue(body, 0))
        ELSE Undefined

getMaxFileSize(envValue) ==
    IF ~Truthy(envValue) THEN DEFAULT_MAX_FILE_SIZE
    ELSE LET parsed == Number(Val(envValue))
         IN  IF parsed # Undefined /\ Val(parsed) > 0 THEN Val(parsed)
             ELSE DEFAULT_MAX_FILE_SIZE

\* the items of a JSON array of string literals, "[" "\"" ... "\"" "," ... "]"
RECURSIVE jsonStrings(_)
jsonStrings(s) ==
    LET t == trimStart(s)
    IN  IF t = <<>> \/ Head(t) # "\"" \/ ~includes(Tail(t), "\"") THEN Throw(OtherError("SyntaxError"))
        ELSE LET close == indexOf(Tail(t), "\"")
                 item  == SubSeq(Tail(t), 1, close - 1)
                 rest  == trimStart(SubSeq(Tail(t), close + 1, Len(t) - 1))
             IN  IF rest = <<>> THEN Ok(<<item>>)
                 ELSE IF Head(rest) # "," THEN Throw(OtherError("SyntaxError"))
                 ELSE LET more == jsonStrings(Tail(rest))
                      IN  IF more.ok THEN Ok(<<item>> \o more.value) ELSE more

\* JSON.parse(value) when the text is an array of strings
jsonStringArray(value) ==
    LET t == trim(value)
    IN  IF Len(t) < 2 \/ t[1] # "[" \/ t[Len(t)] # "]" THEN Throw(OtherError("SyntaxError"))
        ELSE LET inner == trim(SubSeq(t, 2, Len(t) - 1))
             IN  IF inner = <<>> THEN Ok(<<>>) ELSE jsonStrings(inner)

\* value.split(/[,\s]+/).filter(Boolean)
IsSeparator(c) == c = "," \/ IsSpace(c)

RECURSIVE splitList(_, _)
splitList(s, cur) ==
    IF s = <<>> THEN (IF cur = <<>> THEN <<>> ELSE <<cur>>)
    ELSE IF IsSeparator(Head(s))
    THEN (IF cur = <<>> THEN <<>> ELSE <<cur>>) \o splitList(Tail(s), <<>>)
    ELSE splitList(Tail(s), Append(cur, Head(s)))

parseSupportedFormats(value) ==
    IF ~Truthy(value) THEN DEFAULT_SUPPORTED_FORMATS
    ELSE LET parsed == jsonStringArray(Val(value))
             list   == splitList(Val(value), <<>>)
         IN  IF parsed.ok
             THEN (IF Len(parsed.value) > 0 THEN parsed.value ELSE DEFAULT_SUPPORTED_FORMATS)
             ELSE (IF Len(list) > 0 THEN list ELSE DEFAULT_SUPPORTED_FORMATS)

isAllowedFormat(formats, mimeType, filename) ==
    LET ext            == getExtension(filename)
        normalizedMime == toLowerCase(mimeType)
    IN  \E k \in 1..Len(formats) :
            LET normalized == toLowerCase(trim(formats[k]))
            IN  /\ normalized # <<>>
                /\ IF includes(normalized, "/") THEN normalized = normalizedMime
                   ELSE IF Head(normalized) = "."
                   THEN Truthy(ext) /\ Tail(normalized) = Val(ext)
                   ELSE Truthy(ext) /\ normalized = Val(ext)

\* validateFile checking the format before the size
validateFile_FormatFirst(file, filename, e) ==
    LET maxFileSize == getMaxFileSize(e.MAX_FILE_SIZE)
        formats     == parseSupportedFormats(e.SUPPORTED_FORMATS)
        mimeType    == IF file.type # <<>> THEN file.type
                       ELSE OrElse(inferMimeType(Some(filename)), <<>>)
    IN  IF ~isAllowedFormat(formats, mimeType, filename)
        THEN Throw(OcrError(400, "UNSUPPORTED_FORMAT",
                            <<"The current file format is not supported.">>, Undefined))
        ELSE IF file.size > maxFileSize
        THEN Throw(OcrError(413, "FILE_TOO_LARGE",
                            <<"File size exceeds the limit (max ",
                              ToString((maxFileSize + 524288) \div 1048576), "MB).">>,
                            Undefined))
        ELSE Ok(TRUE)

validateFile(file, filename, e) ==
    LET maxFileSize == getMaxFileSize(e.MAX_FILE_SIZE)
        formats     == parseSupportedFormats(e.SUPPORTED_FORMATS)
        mimeType    == IF file.type # <<>> THEN file.type
                       ELSE OrElse(inferMimeType(Some(filename)), <<>>)
    IN  IF file.size > maxFileSize
        THEN Throw(OcrError(413, "FILE_TOO_LARGE",
                            <<"File size exceeds the limit (max ",
                              ToString((maxFileSize + 524288) \div 1048576), "MB).">>,
                            Undefined))
        ELSE IF ~isAllowedFormat(formats, mimeType, filename)
        THEN Throw(OcrError(400, "UNSUPPORTED_FORMAT",
                            <<"The current file format is not supported.">>, Undefined))
        ELSE Ok(TRUE)

prepareFile(file, filename) ==
    LET mimeType == IF file.type # <<>> THEN file.type
                    ELSE OrElse(inferMimeType(Some(filename)), OctetStream)
    IN  [base64 |-> fileToBase64(file), mimeType |-> mimeType, filename |-> filename]

-----------------------------------------------------------------------------
(* Upstream client *)

DefaultBaseUrl == <<"https:", "/", "/", "api.siliconflow.cn">>
DefaultModel == <<"deepseek-ai", "/", "DeepSeek-OCR">>

\* String.prototype.replace(/\/$/, "")
stripTrailingSlash(s) ==
    IF s # <<>> /\ s[Len(s)] = "/" THEN SubSeq(s, 1, Len(s) - 1) ELSE s

\* the chat-completion request built by invokeSiliconFlow
UpstreamRequest(base64, mimeType, prompt, e) ==
    [endpoint |-> stripTrailingSlash(IF Truthy(e.SILICONFLOW_BASE_URL)
                                     THEN Val(e.SILICONFLOW_BASE_URL) ELSE DefaultBaseUrl)
                  \o <<"/", "v1", "/", "chat", "/", "completions">>,
     authorization |-> <<"Bearer ">> \o Val(e.SILICONFLOW_API_KEY),
     model |-> IF Truthy(e.SILICONFLOW_MODEL_ID) THEN Val(e.SILICONFLOW_MODEL_ID) ELSE DefaultModel,
     imageUrl |-> [mimeType |-> mimeType, base64 |-> base64],
     text |-> prompt,
     temperature |-> 0]

\* message content of a choice
NoContent == [kind |-> "none", text |-> <<>>, parts |-> <<>>]
StringContent(t) == [kind |-> "string", text |-> t, parts |-> <<>>]
\* a list of parts; a part is its string-valued text field, or undefined
\* when it has none
ListContent(ps) == [kind |-> "list", text |-> <<>>, parts |-> ps]

Choice(content, confidence) == [falsy |-> FALSE, content |-> content, confidence |-> confidence]
\* a first element of choices that is null
NullChoice == [falsy |-> TRUE, content |-> NoContent, confidence |-> Undefined]

\* the members of the parsed body that the code reads
Data(choices, model, errorMessage) ==
    [choices |-> choices, model |-> model, errorMessage |-> errorMessage]

\* extractTextFromResponse testing the content for emptiness before trimming
extractTextFromResponse_Untrimmed(data) ==
    LET choice == IF data = Undefined \/ Val(data).choices = Undefined
                     \/ Val(Val(data).choices) = <<>>
                  THEN Undefined
                  ELSE Some(Val(Val(data).choices)[1])
    IN  IF choice = Undefined \/ Val(choice).falsy
        THEN Throw(OcrError(502, "EMPTY_RESPONSE",
                            <<"The OCR endpoint returned no valid content.">>, Undefined))
        ELSE LET content == Val(choice).content
                 text == CASE content.kind = "string" -> content.text
                           [] content.kind = "list" ->
                                joinLines([i \in 1..Len(content.parts) |->
                                             OrElse(content.parts[i], <<>>)])
                           [] OTHER -> <<>>
             IN  IF text = <<>>
                 THEN Throw(OcrError(502, "EMPTY_RESPONSE",
                                     <<"The OCR result is empty, please retry.">>, Undefined))
                 ELSE Ok([text |-> trim(text), confidence |-> Val(choice).confidence])

extractTextFromResponse(data) ==
    LET choice == IF data = Undefined \/ Val(data).choices = Undefined
                     \/ Val(Val(data).choices) = <<>>
                  THEN Undefined
                  ELSE Some(Val(Val(data).choices)[1])
    IN  IF choice = Undefined \/ Val(choice).falsy
        THEN Throw(OcrError(502, "EMPTY_RESPONSE",
                            <<"The OCR endpoint returned no valid content.">>, Undefined))
        ELSE LET content == Val(choice).content
                 text == CASE content.kind = "string" -> trim(content.text)
                           [] content.kind = "list" ->
                                trim(joinLines([i \in 1..Len(content.parts) |->
                                                  OrElse(content.parts[i], <<>>)]))
                           [] OTHER -> <<>>
             IN  IF text = <<>>
                 THEN Throw(OcrError(502, "EMPTY_RESPONSE",
                                     <<"The OCR result is empty, please retry.">>, Undefined))
                 ELSE Ok([text |-> text, confidence |-> Val(choice).confidence])

\* the part of invokeSiliconFlow that runs once the fetch has settled
readReply(rp, requestedModel) ==
    IF rp.threw THEN Throw(OtherError("TypeError"))
    ELSE LET data == rp.json
             ok   == rp.status >= 200 /\ rp.status <= 299
         IN  IF ~ok
             THEN LET message ==
                          IF data # Undefined /\ Truthy(Val(data).errorMessage)
                          THEN Val(Val(data).errorMessage)
                          ELSE IF rp.statusText # <<>> THEN rp.statusText
                          ELSE <<"API call failed">>
                  IN  Throw(OcrError(rp.status, "UPSTREAM_ERROR",
                                     <<"SiliconFlow API error: ">> \o message, Some(rp.text)))
             ELSE LET extracted == extractTextFromResponse(data)
                  IN  IF ~extracted.ok THEN extracted
                      ELSE Ok([text |-> extracted.value.text,
                               confidence |-> extracted.value.confidence,
                               model |-> IF data # Undefined /\ Truthy(Val(data).model)
                                         THEN Val(Val(data).model) ELSE requestedModel])

-----------------------------------------------------------------------------
(* Response envelope *)

InternalErrorMessage == <<"The service is temporarily unavailable, please retry later.">>

\* Response.json drops members whose value is undefined
ErrorBody(code, message, details) ==
    IF details = Undefined
    THEN [code |-> code, message |-> message]
    ELSE [code |-> code, message |-> message, details |-> Val(details)]

\* handleError passing an unrecognized error's own text on as details
handleError_Leaky(error) ==
    IF error.ocr
    THEN [status |-> error.status,
          body |-> [success |-> FALSE,
                    error |-> ErrorBody(error.code, error.message, error.details)]]
    ELSE [status |-> 500,
          body |-> [success |-> FALSE,
                    error |-> [code |-> "INTERNAL_ERROR", message |-> InternalErrorMessage,
                               details |-> <<error.code>>]]]

handleError(error) ==
    IF error.ocr
    THEN [status |-> error.status,
          body |-> [success |-> FALSE,
                    error |-> ErrorBody(error.code, error.message, error.details)]]
    ELSE [status |-> 500,
          body |-> [success |-> FALSE,
                    error |-> [code |-> "INTERNAL_ERROR", message |-> InternalErrorMessage]]]

\* Number(x.toFixed(2)): elapsed is in thousandths of a millisecond, the
\* result in hundredths
toFixed2(elapsed) == (elapsed + 5) \div 10

SuccessData(res, processingTime, taskType, prompt, filename) ==
    IF res.confidence = Undefined
    THEN [text |-> res.text, processingTime |-> processingTime, model |-> res.model,
          taskType |-> taskType, promptUsed |-> prompt, filename |-> filename]
    ELSE [text |-> res.text, confidence |-> Val(res.confidence),
          processingTime |-> processingTime, model |-> res.model,
          taskType |-> taskType, promptUsed |-> prompt, filename |-> filename]

success(data) == [status |-> 200, body |-> [success |-> TRUE, data |-> data]]

-----------------------------------------------------------------------------
(* Inputs *)

Request(contentType, body, image, filename, prompt, text, taskType) ==
    [contentType |-> contentType, body |-> body, image |-> image, filename |-> filename,
     prompt |-> prompt, text |-> text, taskType |-> taskType]

MultipartType == <<"multipart/form-data", "; boundary=x">>
JsonType == <<"application/json">>

Png == <<"image", "/", "png">>

\* the values sent under taskType: none, members, a non-member, blank
TaskTypeFields ==
    {<<>>, <<StringValue(<<"general_ocr">>)>>, <<StringValue(<<"text_localization">>)>>,
     <<StringValue(<<"bogus">>)>>, <<StringValue(<<" ">>)>>}

\* bounds of the inputs
MaxPad == 1        \* white space in front of a text field's value
MaxTargetLen == 2  \* length of the target texts given to the prompt builder
MaxContentLen == 2 \* length of an upstream string content
MaxParts == 3      \* number of parts of an upstream list content

Spaces(n) == [i \in 1..n |-> " "]

\* the values sent under text: none, or an empty or non-empty value behind
\* up to MaxPad spaces
TextFields ==
    {<<>>} \cup {<<StringValue(Spaces(k) \o c)>> : k \in 0..MaxPad, c \in {<<>>, <<"x">>}}

PromptFields == {<<>>, <<StringValue(<<"p">>)>>}

UploadedFiles ==
    {FileValue(n, t, z) : n \in {<<>>, <<"a", ".", "PNG">>, <<"a", ".", "txt">>},
                          t \in {<<>>, Png},
                          z \in {1, DEFAULT_MAX_FILE_SIZE + 1}}

MultipartImages ==
    {<<>>, <<StringValue(<<"x">>)>>,
     <<FileValue(<<"a", ".", "PNG">>, Png, 1), StringValue(<<"x">>)>>}
    \cup {<<f>> : f \in UploadedFiles}

MultipartRequests ==
    {Request(MultipartType, "ok", i, <<>>, p, t, tt) :
        i \in MultipartImages, p \in PromptFields, t \in TextFields, tt \in TaskTypeFields}
    \cup {Request(MultipartType, "malformed", <<>>, <<>>, <<>>, <<>>, <<>>)}

JsonImages ==
    {<<>>, <<OtherValue>>, <<StringValue(<<>>)>>,
     <<StringValue(<<"i", "V", "B", "O">>)>>,
     <<StringValue(<<"data:image/png;base64", ",", "i", "V", "B", " ", "O", "R", "w", "=", "=">>)>>,
     <<StringValue(<<"i", "V", "B", "O", "R">>)>>}

JsonFilenames ==
    {<<>>, <<StringValue(<<"a", ".", "png">>)>>, <<StringValue(<<"a", ".", "txt">>)>>}

JsonRequests ==
    {Request(JsonType, "ok", i, n, p, t, tt) :
        i \in JsonImages, n \in JsonFilenames, p \in PromptFields, t \in TextFields,
        tt \in TaskTypeFields}
    \cup {Request(JsonType, b, <<>>, <<>>, <<>>, <<>>, <<>>) : b \in {"malformed", "nonobject"}}

OtherRequests ==
    {Request(ct, "ok", <<>>, <<>>, <<>>, <<>>, <<>>) : ct \in {<<>>, <<"text/plain">>}}

Requests == MultipartRequests \cup JsonRequests \cup OtherRequests

MaxFileSizeValues ==
    {Undefined, Some(<<"x">>), Some(<<"0">>), Some(<<"-", "2">>), Some(<<"2">>)}

SupportedFormatsValues ==
    {Undefined,
     Some(<<"[", "\"", "image", "/", "jpeg", "\"", ",", " ", "\"", ".", "pdf", "\"", "]">>),
     Some(<<"PNG", ",", " ", "txt">>)}

ApiKeyValues == {Undefined, Some(<<"sk-test">>)}
ModelIdValues == {Undefined, Some(<<"custom-model">>)}
BaseUrlValues == {Undefined, Some(<<"https:", "/", "/", "proxy.example", "/">>)}

Reply(threw, status, statusText, text, json) ==
    [threw |-> threw, status |-> status, statusText |-> statusText, text |-> text, json |-> json]

OkReply(content, confidence, model) ==
    Reply(FALSE, 200, <<"OK">>, <<"body">>,
          Some(Data(Some(<<Choice(content, confidence)>>), model, Undefined)))

Replies ==
    {Reply(TRUE, 0, <<>>, <<>>, Undefined),
     Reply(FALSE, 500, <<"Internal Server Error">>, <<"<html>">>, Undefined),
     Reply(FALSE, 429, <<>>, <<"body">>, Some(Data(Undefined, Undefined, Some(<<"rate limited">>)))),
     Reply(FALSE, 200, <<"OK">>, <<"body">>, Some(Data(Some(<<>>), Undefined, Undefined))),
     OkReply(StringContent(<<" ", "A", "\n">>), Some(97), Some(<<"upstream-model">>))}

\* performance.now() differences, in thousandths of a millisecond
ElapsedValues == {1235}

-----------------------------------------------------------------------------
(* The request pipeline: handleOcrRequest *)

Init ==
    /\ pc = "idle"
    /\ forced = NoForced
    /\ req = Undefined
    /\ env = [n \in {} |-> Undefined]
    /\ payload = Undefined
    /\ finalPrompt = Undefined
    /\ fileInfo = Undefined
    /\ upstream = Undefined
    /\ reply = Undefined
    /\ result = Undefined
    /\ response = Undefined
    /\ fetches = 0
    /\ stages = <<>>

\* catch (error) { return handleError(c, error) }
Fail(error) ==
    /\ pc' = "done"
    /\ response' = Some(handleError(error))

\* a route's handle(c): handleOcrRequest(c, {forcedTaskType})
Handle(routes, requests) ==
    /\ pc = "idle"
    /\ \E f \in routes, r \in requests :
          /\ forced' = f
          /\ req' = Some(r)
    /\ pc' = "parseInput"
    /\ UNCHANGED <<env, payload, finalPrompt, fileInfo, upstream, reply, result,
                   response, fetches, stages>>

ParseInput ==
    /\ pc = "parseInput"
    /\ stages' = Append(stages, "parseInput")
    /\ LET parsed == parseInput(Val(req), forced)
       IN  IF parsed.ok
           THEN /\ payload' = Some(parsed.value)
                /\ pc' = "buildPrompt"
                /\ UNCHANGED response
           ELSE /\ Fail(parsed.error)
                /\ UNCHANGED payload
    /\ UNCHANGED <<forced, req, env, finalPrompt, fileInfo, upstream, reply, result, fetches>>

BuildPrompt ==
    /\ pc = "buildPrompt"
    /\ stages' = Append(stages, "buildPrompt")
    /\ LET p      == Val(payload)
           prompt == buildPrompt(TASK_CONFIGS[p.taskType], p.customPrompt, p.targetText)
       IN  IF prompt.ok
           THEN /\ finalPrompt' = Some(prompt.value)
                /\ pc' = "validateFile"
                /\ UNCHANGED response
           ELSE /\ Fail(prompt.error)
                /\ UNCHANGED finalPrompt
    /\ UNCHANGED <<forced, req, env, payload, fileInfo, upstream, reply, result, fetches>>

ValidateFile(maxFileSizes, supportedFormats) ==
    /\ pc = "validateFile"
    /\ stages' = Append(stages, "validateFile")
    /\ \E m \in maxFileSizes, f \in supportedFormats :
          /\ env' = [MAX_FILE_SIZE |-> m, SUPPORTED_FORMATS |-> f]
          /\ LET p     == Val(payload)
                 valid == validateFile(p.file, p.filename, env')
             IN  IF valid.ok
                 THEN /\ pc' = "prepareFile"
                      /\ UNCHANGED response
                 ELSE Fail(valid.error)
    /\ UNCHANGED <<forced, req, payload, finalPrompt, fileInfo, upstream, reply, result, fetches>>

PrepareFile ==
    /\ pc = "prepareFile"
    /\ stages' = Append(stages, "prepareFile")
    /\ fileInfo' = Some(prepareFile(Val(payload).file, Val(payload).filename))
    /\ pc' = "invokeSiliconFlow"
    /\ UNCHANGED <<forced, req, env, payload, finalPrompt, upstream, reply, result,
                   response, fetches>>

\* invokeSiliconFlow issuing the fetch before it looks at the API key
InvokeSiliconFlow_FetchFirst(apiKeys, baseUrls, modelIds) ==
    /\ pc = "invokeSiliconFlow"
    /\ stages' = Append(stages, "invokeSiliconFlow")
    /\ \E k \in apiKeys, b \in baseUrls, m \in modelIds :
          /\ env' = [MAX_FILE_SIZE |-> env.MAX_FILE_SIZE,
                     SUPPORTED_FORMATS |-> env.SUPPORTED_FORMATS,
                     SILICONFLOW_API_KEY |-> k,
                     SILICONFLOW_BASE_URL |-> b,
                     SILICONFLOW_MODEL_ID |-> m]
          /\ upstream' = Some(UpstreamRequest(Val(fileInfo).base64, Val(fileInfo).mimeType,
                                               Val(finalPrompt),
                                               [env' EXCEPT !.SILICONFLOW_API_KEY =
                                                   IF Truthy(k) THEN k ELSE Some(<<"undefined">>)]))
          /\ fetches' = fetches + 1
          /\ IF ~Truthy(k)
             THEN Fail(OcrError(500, "MISSING_API_KEY",
                                <<"The SILICONFLOW_API_KEY environment variable is not configured.">>,
                                Undefined))
             ELSE pc' = "fetch" /\ UNCHANGED response
    /\ UNCHANGED <<forced, req, payload, finalPrompt, fileInfo, reply, result>>

\* invokeSiliconFlow up to the fetch: the API-key check, then the request
InvokeSiliconFlow(apiKeys, baseUrls, modelIds) ==
    /\ pc = "invokeSiliconFlow"
    /\ stages' = Append(stages, "invokeSiliconFlow")
    /\ \E k \in apiKeys, b \in baseUrls, m \in modelIds :
          /\ env' = [MAX_FILE_SIZE |-> env.MAX_FILE_SIZE,
                     SUPPORTED_FORMATS |-> env.SUPPORTED_FORMATS,
                     SILICONFLOW_API_KEY |-> k,
                     SILICONFLOW_BASE_URL |-> b,
                     SILICONFLOW_MODEL_ID |-> m]
          /\ IF ~Truthy(k)
             THEN /\ Fail(OcrError(500, "MISSING_API_KEY",
                                   <<"The SILICONFLOW_API_KEY environment variable is not configured.">>,
                                   Undefined))
                  /\ UNCHANGED <<upstream, fetches>>
             ELSE /\ upstream' = Some(UpstreamRequest(Val(fileInfo).base64, Val(fileInfo).mimeType,
                                                      Val(finalPrompt), env'))
                  /\ fetches' = fetches + 1
                  /\ pc' = "fetch"
                  /\ UNCHANGED response
    /\ UNCHANGED <<forced, req, payload, finalPrompt, fileInfo, reply, result>>

\* the fetch settles: the body is read and parsed, the text extracted
ReceiveReply(replies) ==
    /\ pc = "fetch"
    /\ \E rp \in replies :
          /\ reply' = Some(rp)
          /\ LET r == readReply(rp, Val(upstream).model)
             IN  IF r.ok
                 THEN /\ result' = Some(r.value)
                      /\ pc' = "respond"
                      /\ UNCHANGED response
                 ELSE /\ Fail(r.error)
                      /\ UNCHANGED result
    /\ UNCHANGED <<forced, req, env, payload, finalPrompt, fileInfo, upstream, fetches, stages>>

\* the success envelope
Respond ==
    /\ pc = "respond"
    /\ stages' = Append(stages, "respond")
    /\ \E elapsed \in ElapsedValues :
          response' = Some(success(SuccessData(Val(result), toFixed2(elapsed),
                                               Val(payload).taskType, Val(finalPrompt),
                                               Val(fileInfo).filename)))
    /\ pc' = "done"
    /\ UNCHANGED <<forced, req, env, payload, finalPrompt, fileInfo, upstream, reply,
                   result, fetches>>

Next ==
    \/ Handle(Routes, Requests)
    \/ ParseInput
    \/ BuildPrompt
    \/ ValidateFile(MaxFileSizeValues, SupportedFormatsValues)
    \/ PrepareFile
    \/ InvokeSiliconFlow(ApiKeyValues, {Undefined}, ModelIdValues)
    \/ ReceiveReply(Replies)
    \/ Respond

Spec == Init /\ [][Next]_vars

-----------------------------------------------------------------------------
(* The prompt builder on its own: requests that differ in target text,    *)
(* custom prompt and task, stopped once the prompt is built               *)

TargetAlphabet == {"$", "&", Backtick, Apostrophe, "x", " "}

PromptTextFields ==
    {<<>>} \cup {<<StringValue(t)>> : t \in SeqsUpTo(TargetAlphabet, MaxTargetLen)}

PromptRequests ==
    {Request(MultipartType, "ok", <<FileValue(<<"a", ".", "PNG">>, Png, 1)>>, <<>>, p, t, tt) :
        p \in {<<>>, <<StringValue(<<"p">>)>>, <<StringValue(<<"$", "&">>)>>},
        t \in PromptTextFields,
        tt \in {<<>>, <<StringValue(<<"text_localization">>)>>,
                <<StringValue(<<"document_markdown">>)>>}}

NextPrompt ==
    \/ Handle(Routes, PromptRequests)
    \/ ParseInput
    \/ BuildPrompt

SpecPrompt == Init /\ [][NextPrompt]_vars

-----------------------------------------------------------------------------
(* The upstream client on its own: a few valid requests, every shape of   *)
(* upstream reply                                                         *)

ExtractRequests ==
    {Request(MultipartType, "ok", <<FileValue(<<"a", ".", "PNG">>, Png, 1)>>, <<>>, <<>>,
             <<StringValue(<<"x">>)>>, <<StringValue(<<"general_ocr">>)>>),
     Request(JsonType, "ok", <<StringValue(<<"i", "V", "B", "O">>)>>,
             <<StringValue(<<"a", ".", "png">>)>>, <<>>, <<StringValue(<<"x">>)>>, <<>>)}

PartValues == {Undefined, Some(<<>>), Some(<<" ">>), Some(<<"A">>)}

Contents ==
    {NoContent}
    \cup {StringContent(t) : t \in SeqsUpTo({" ", "\n", "A"}, MaxContentLen)}
    \cup {ListContent(ps) : ps \in SeqsUpTo(PartValues, MaxParts)}

ExtractReplies ==
    Replies
    \cup {Reply(FALSE, st, <<"OK">>, <<"<html>">>, Undefined) : st \in {200, 204}}
    \cup {Reply(FALSE, st, <<"OK">>, <<"body">>, Some(Data(ch, Undefined, Undefined))) :
             st \in {200, 201}, ch \in {Undefined, Some(<<>>), Some(<<NullChoice>>)}}
    \cup {OkReply(c, Undefined, m) : c \in Contents, m \in {Undefined, Some(<<>>)}}
    \cup {OkReply(ListContent(<<Some(<<"A">>), Undefined, Some(<<"B">>)>>), Some(97),
                  Some(<<"upstream-model">>))}

NextExtract ==
    \/ Handle({NoForced, Some("text_localization")}, ExtractRequests)
    \/ ParseInput
    \/ BuildPrompt
    \/ ValidateFile({Undefined}, {Undefined})
    \/ PrepareFile
    \/ InvokeSiliconFlow({Some(<<"sk-test">>)}, BaseUrlValues, ModelIdValues)
    \/ ReceiveReply(ExtractReplies)
    \/ Respond

SpecExtract == Init /\ [][NextExtract]_vars

-----------------------------------------------------------------------------
(* Vocabulary of the properties *)

Done == pc = "done"
Body == Val(response).body
Succeeded == Done /\ Body.success
FailedWith(code, status) ==
    /\ Done
    /\ ~Body.success
    /\ Body.error.code = code
    /\ Val(response).status = status

IsMultipart(r) == includes(r.contentType, "multipart/form-data")
IsJson(r) == ~IsMultipart(r) /\ includes(r.contentType, "application/json")

Between(lo, x, hi) == lo <= x /\ x <= hi
AllSpace(t) == \A i \in 1..Len(t) : IsSpace(t[i])

\* a field that is absent, not a string, or empty once white space is removed
Blank(field) ==
    first(field) = Undefined \/ Val(first(field)).kind # "string"
        \/ AllSpace(Val(first(field)).text)

\* the request carries a file: a multipart file part, or a JSON body that
\* passes the schema and whose image decodes
HasUpload(r) ==
    IF IsMultipart(r)
    THEN r.body = "ok" /\ first(r.image) # Undefined /\ Val(first(r.image)).kind = "file"
    ELSE /\ IsJson(r)
         /\ r.body = "ok"
         /\ zodIssues(r) = <<>>
         /\ base64ToUint8Array(Val(first(r.image)).text).ok

UploadSize(r) ==
    IF IsMultipart(r) THEN Val(first(r.image)).size
    ELSE base64ToUint8Array(Val(first(r.image)).text).value

EnvRead(name) == name \in DOMAIN env

\* the limit as the documentation states it
StatedMaxFileSize(v) ==
    IF v = Undefined \/ Number(Val(v)) = Undefined THEN 10485760
    ELSE IF Val(Number(Val(v))) <= 0 THEN 10485760
    ELSE Val(Number(Val(v)))

\* the state right after input normalization is the outcome request r
\* yields: the same ParsedInput, or an error of the same status and code
ParsedAs(r) ==
    LET alt == parseInput(r, forced)
    IN  IF alt.ok
        THEN pc = "buildPrompt" /\ payload = Some(alt.value)
        ELSE /\ pc = "done"
             /\ ~Body.success
             /\ Val(response).status = handleError(alt.error).status
             /\ Body.error.code = handleError(alt.error).body.error.code

-----------------------------------------------------------------------------
(* C1 *)

\* C1: on an alias endpoint the caller's taskType field is ignored: the
\* outcome of input normalization (the ParsedInput every later stage works
\* from, or the error envelope) is the same for every value of taskType --
\* absent, a member, a non-member -- and a success reports the endpoint's task.
C1_AliasIgnoresTaskType ==
    /\ (forced # NoForced /\ stages = <<"parseInput">>) =>
           \A tt \in TaskTypeFields : ParsedAs([Val(req) EXCEPT !.taskType = tt])
    /\ (Succeeded /\ forced # NoForced) => Body.data.taskType = Val(forced)

-----------------------------------------------------------------------------
(* C2 *)

C2_Request(r) ==
    /\ IsJson(r)
    /\ HasUpload(r)
    /\ r.filename = <<>>
    /\ \/ forced # NoForced
       \/ \E t \in TaskTypeSchema : r.taskType = <<StringValue(<<t>>)>>
    /\ ~Blank(r.text)

\* what has been read of the configuration and of the upstream so far is as
\* the claim assumes: size under the limit, no SUPPORTED_FORMATS, an API key,
\* a success reply with non-empty text
C2_Assumptions ==
    /\ EnvRead("MAX_FILE_SIZE") =>
           /\ UploadSize(Val(req)) <= StatedMaxFileSize(env.MAX_FILE_SIZE)
           /\ env.SUPPORTED_FORMATS = Undefined
    /\ EnvRead("SILICONFLOW_API_KEY") => Truthy(env.SILICONFLOW_API_KEY)
    /\ reply # Undefined =>
           /\ ~Val(reply).threw
           /\ Between(200, Val(reply).status, 299)
           /\ Val(reply).json # Undefined
           /\ Val(Val(reply).json).choices \notin {Undefined, Some(<<>>)}
           /\ LET c == Val(Val(Val(reply).json).choices)[1]
              IN  ~c.falsy /\ c.content.kind = "string" /\ ~AllSpace(c.content.text)

\* C2: a JSON request with a valid base64 image under the size limit, no
\* filename, a valid task, the default configuration, an API key and an
\* upstream reply with text ends in success, with data.filename "upload" and
\* a non-empty data.model.
C2_JsonUploadSucceeds ==
    (Done /\ C2_Request(Val(req)) /\ C2_Assumptions) =>
        /\ Body.success
        /\ Body.data.filename = Upload
        /\ Body.data.model # <<>>

-----------------------------------------------------------------------------
(* C3 *)

\* the limits the configuration can yield, or the one it did yield
PossibleLimits ==
    IF EnvRead("MAX_FILE_SIZE") THEN {StatedMaxFileSize(env.MAX_FILE_SIZE)}
    ELSE {StatedMaxFileSize(m) : m \in MaxFileSizeValues}

\* C3 as stated: every request whose file is larger than the configured
\* maximum fails with FILE_TOO_LARGE and 413, whatever its other fields.
C3_OversizeAlwaysTooLarge ==
    (Done /\ HasUpload(Val(req)) /\ \A limit \in PossibleLimits : UploadSize(Val(req)) > limit)
        => FailedWith("FILE_TOO_LARGE", 413)

\* C3 amended: every request that reaches file validation (its input was
\* normalized and its prompt built) with a file larger than the configured
\* maximum -- MAX_FILE_SIZE, or 10485760 when that is unset, unparsable or
\* not positive -- fails with FILE_TOO_LARGE and 413, whatever the file's
\* MIME type and extension and whatever SUPPORTED_FORMATS is.
C3_OversizeTooLargeOnceValidated ==
    (/\ Done
     /\ Len(stages) >= 3
     /\ Val(payload).file.size > StatedMaxFileSize(env.MAX_FILE_SIZE))
        => FailedWith("FILE_TOO_LARGE", 413)

\* an oversize file of no declared type and no extension, under a
\* MAX_FILE_SIZE of "0", rejected as too large
C3_Witness ==
    /\ FailedWith("FILE_TOO_LARGE", 413)
    /\ Len(stages) >= 3
    /\ env.MAX_FILE_SIZE = Some(<<"0">>)
    /\ Val(payload).file.type = <<>>
    /\ Val(payload).file.name = <<>>
    /\ Val(payload).file.size > 10485760

-----------------------------------------------------------------------------
(* C4 *)

\* C4: a request resolved to text_localization whose text field is absent,
\* empty or white space only never gets past the prompt builder: no upstream
\* request is made, and it ends with MISSING_TARGET_TEXT and 400.
C4_LocateWithoutTextRejected ==
    (/\ payload # Undefined
     /\ Val(payload).taskType = "text_localization"
     /\ Blank(Val(req).text))
        => /\ pc \in {"buildPrompt", "done"}
           /\ fetches = 0
           /\ upstream = Undefined
           /\ Done => FailedWith("MISSING_TARGET_TEXT", 400)

\* a JSON request on the generic endpoint, taskType text_localization and a
\* text of spaces, rejected
C4_Witness ==
    /\ FailedWith("MISSING_TARGET_TEXT", 400)
    /\ forced = NoForced
    /\ IsJson(Val(req))
    /\ Val(req).text = <<StringValue(<<" ">>)>>

\* the same for a multipart request on the locate alias without a text field
C4_WitnessMultipart ==
    /\ FailedWith("MISSING_TARGET_TEXT", 400)
    /\ forced = Some("text_localization")
    /\ IsMultipart(Val(req))
    /\ Val(req).text = <<>>

-----------------------------------------------------------------------------
(* C5 *)

\* the body parses on the generic endpoint once it names a valid task
OtherwiseValid(r) ==
    parseInput([r EXCEPT !.taskType = <<StringValue(<<"general_ocr">>)>>], NoForced).ok

\* C5: on the generic endpoint, with an otherwise valid multipart or JSON
\* body, an absent taskType fails with MISSING_TASK_TYPE (400), a taskType
\* that is present and not a member of the enumeration fails with
\* INVALID_TASK_TYPE (400), and a ParsedInput only ever holds a member.
C5_GenericTaskTypeErrors ==
    /\ (forced = NoForced /\ stages = <<"parseInput">> /\ OtherwiseValid(Val(req))) =>
           LET tt == Val(req).taskType
           IN  /\ tt = <<>> => FailedWith("MISSING_TASK_TYPE", 400)
               /\ (tt # <<>> /\ ~Blank(tt) /\ trim(tt[1].text) \notin {<<t>> : t \in TaskTypeSchema})
                      => FailedWith("INVALID_TASK_TYPE", 400)
    /\ payload # Undefined => Val(payload).taskType \in TaskTypeSchema

-----------------------------------------------------------------------------
(* C6 *)

\* exactly one of data and error, decided by success
WellFormed(resp) ==
    LET b == resp.body
    IN  IF b.success
        THEN DOMAIN b = {"success", "data"}
        ELSE /\ DOMAIN b = {"success", "error"}
             /\ {"code", "message"} \subseteq DOMAIN b.error
             /\ DOMAIN b.error \subseteq {"code", "message", "details"}
             /\ b.error.message # <<>>

\* failures that are not OcrError: a body that does not parse, base64 that
\* does not decode, a fetch that rejects
UnrecognizedFailure ==
    \/ /\ IsMultipart(Val(req)) \/ IsJson(Val(req))
       /\ Val(req).body = "malformed"
    \/ /\ IsJson(Val(req))
       /\ Val(req).body = "ok"
       /\ zodIssues(Val(req)) = <<>>
       /\ ~base64ToUint8Array(Val(first(Val(req).image)).text).ok
    \/ /\ reply # Undefined
       /\ Val(reply).threw

-----------------------------------------------------------------------------
(* C7 *)

FirstChoice(rp) ==
    IF rp.json = Undefined \/ Val(rp.json).choices \in {Undefined, Some(<<>>)} THEN Undefined
    ELSE IF Val(Val(rp.json).choices)[1].falsy THEN Undefined
    ELSE Some(Val(Val(rp.json).choices)[1])

\* nothing but white space in the content of choice c
ContentBlank(c) ==
    CASE c.content.kind = "string" -> AllSpace(c.content.text)
      [] c.content.kind = "list" ->
           \A i \in 1..Len(c.content.parts) :
               c.content.parts[i] = Undefined \/ AllSpace(Val(c.content.parts[i]))
      [] OTHER -> TRUE

\* C7: a success never carries an empty text; a reply with a success status
\* and no first choice, or whose content is empty once trimmed, ends in
\* EMPTY_RESPONSE with status 502.
C7_NoEmptyTextOnSuccess ==
    /\ Succeeded => ~AllSpace(Body.data.text)
    /\ (/\ Done
        /\ reply # Undefined
        /\ ~Val(reply).threw
        /\ Between(200, Val(reply).status, 299)
        /\ \/ FirstChoice(Val(reply)) = Undefined
           \/ ContentBlank(Val(FirstChoice(Val(reply)))))
           => FailedWith("EMPTY_RESPONSE", 502)

\* a success reply whose content is a list of two parts, one without text
\* and one of white space, rejected as empty
C7_Witness ==
    /\ FailedWith("EMPTY_RESPONSE", 502)
    /\ FirstChoice(Val(reply)) # Undefined
    /\ Val(FirstChoice(Val(reply))).content.kind = "list"
    /\ Val(FirstChoice(Val(reply))).content.parts = <<Undefined, Some(<<" ">>)>>

-----------------------------------------------------------------------------
(* C8 *)

\* the template with its first placeholder replaced by the target, verbatim
WithTarget(template, target) ==
    LET i == indexOf(template, Placeholder)
    IN  IF i = 0 THEN template
        ELSE SubSeq(template, 1, i - 1) \o target \o SubSeq(template, i + 1, Len(template))

ReferencePrompt(config, customPrompt, targetText) ==
    LET base == IF config.requiresTargetText
                THEN WithTarget(config.defaultPrompt, Val(targetText))
                ELSE config.defaultPrompt
    IN  IF config.allowCustomPrompt /\ customPrompt # Undefined
        THEN base \o <<"\n">> \o Val(customPrompt)
        ELSE base

\* C8: the prompt built is the default template, with the first placeholder
\* replaced by the target text verbatim when the task requires one, followed
\* by a newline and the custom prompt when the task allows one and one was
\* given; for the other five tasks it is the default template.
C8_PromptIsReference ==
    finalPrompt # Undefined =>
        Val(finalPrompt) = ReferencePrompt(TASK_CONFIGS[Val(payload).taskType],
                                           Val(payload).customPrompt, Val(payload).targetText)

-----------------------------------------------------------------------------
(* C9 *)

RECURSIVE StringParts(_)
StringParts(parts) ==
    IF parts = <<>> THEN <<>>
    ELSE (IF Head(parts) = Undefined THEN <<>> ELSE <<Val(Head(parts))>>)
         \o StringParts(Tail(parts))

\* C9: for a list content, the text is the string-valued text fields of the
\* parts, in order, joined by single newlines and trimmed; a part without
\* one contributes nothing.
C9_PartsJoined ==
    (result # Undefined /\ Val(FirstChoice(Val(reply))).content.kind = "list") =>
        Val(result).text = trim(joinLines(StringParts(Val(FirstChoice(Val(reply))).content.parts)))

-----------------------------------------------------------------------------
(* C10 *)

StageOrder ==
    <<"parseInput", "buildPrompt", "validateFile", "prepareFile", "invokeSiliconFlow", "respond">>

\* the error codes each stage can raise
StageErrors(stage) ==
    CASE stage = "parseInput" ->
           {"UNSUPPORTED_CONTENT_TYPE", "INVALID_FILE", "INVALID_JSON", "MISSING_IMAGE",
            "MISSING_TASK_TYPE", "INVALID_TASK_TYPE", "INTERNAL_ERROR"}
      [] stage = "buildPrompt" -> {"MISSING_TARGET_TEXT"}
      [] stage = "validateFile" -> {"FILE_TOO_LARGE", "UNSUPPORTED_FORMAT"}
      [] stage = "invokeSiliconFlow" ->
           IF fetches = 0 THEN {"MISSING_API_KEY"}
           ELSE {"UPSTREAM_ERROR", "EMPTY_RESPONSE", "INTERNAL_ERROR"}
      [] OTHER -> {}

\* C10: the stages run in the fixed order and stop at the first failure,
\* whose error is the one reported; the upstream call is made at most once,
\* only after parsing, prompt building, file validation (size before format)
\* and the API-key check have succeeded, and a failed call is not retried.
C10_StagesInOrder ==
    /\ Len(stages) <= Len(StageOrder)
    /\ stages = SubSeq(StageOrder, 1, Len(stages))
    /\ fetches <= 1
    /\ fetches = 0 => upstream = Undefined /\ reply = Undefined
    /\ fetches = 1 =>
           /\ Len(stages) >= 5
           /\ parseInput(Val(req), forced).ok
           /\ payload = Some(parseInput(Val(req), forced).value)
           /\ finalPrompt # Undefined
           /\ Val(payload).file.size <= StatedMaxFileSize(env.MAX_FILE_SIZE)
           /\ validateFile(Val(payload).file, Val(payload).filename, env).ok
           /\ fileInfo # Undefined
           /\ Truthy(env.SILICONFLOW_API_KEY)
           /\ upstream # Undefined
    /\ (Done /\ ~Body.success) =>
           /\ Body.error.code \in StageErrors(stages[Len(stages)])
           /\ result = Undefined
           /\ Body.error.code = "UNSUPPORTED_FORMAT" =>
                  Val(payload).file.size <= StatedMaxFileSize(env.MAX_FILE_SIZE)
    /\ (reply # Undefined /\ ~readReply(Val(reply), Val(upstream).model).ok) =>
           Done /\ ~Body.success /\ fetches = 1
    /\ Succeeded => stages = StageOrder /\ fetches = 1

\* an upstream failure (status 500) reported after exactly one call
C10_Witness ==
    /\ FailedWith("UPSTREAM_ERROR", 500)
    /\ fetches = 1
    /\ stages = SubSeq(StageOrder, 1, 5)

====
